---- MODULE Spec2Model ----
(***************************************************************************)
(* Refresh / warm-up state machine of the StreamScout page component       *)
(* (Home, src/unnamed/part_000): React state, the four effects and the     *)
(* two asynchronous helpers checkStatus and fetchData.                     *)
(*                                                                         *)
(* State updates made after an await are applied as one batch (React 18),  *)
(* and the effects keyed on the changed state run as part of the same      *)
(* step.  Timers are not variables: an interval is armed exactly when the  *)
(* guard of its effect holds for the rendered state.                       *)
(***************************************************************************)
EXTENDS Integers, Sequences, FiniteSets, TLC

\* ---------------------------------------------------------------- bounds
MaxInterval == 2      \* largest interval value a response advertises
MaxTs == 1            \* distinct snapshot timestamps
MaxInFlight == 2      \* outstanding /analyze requests
MaxPolls == 2         \* outstanding /status requests
MaxGames == 1         \* entries of top_opportunities

\* ------------------------------------------------------ program constants
DefaultRefreshSeconds == 600
ProcessingCode == 202
DriftPeriod == 60     \* seconds between two drift-correction refreshes

FailedMsg == "Failed to load data. Please try again later."
NoError == "null"

MsgInitializing == "Initializing..."
MsgFetching == "Fetching stream data from Twitch API..."
MsgReady == "Data ready!"
MsgWaiting == "Waiting for initial data fetch..."
MsgConnecting == "Connecting to server..."

\* the null snapshot (useState<AnalysisData | null>(null))
Null == [isNull |-> TRUE]

VARIABLES data, loading, error, countdown, isWarmingUp, warmupStatus,
          inflight, polls, lifecycle, last, driftAge, sinceDrift,
          serverReady

vars == <<data, loading, error, countdown, isWarmingUp, warmupStatus,
          inflight, polls, lifecycle, last, driftAge, sinceDrift,
          serverReady>>

\* ------------------------------------------------------------ wire shapes
Intervals == (0 - 1)..MaxInterval

Has(body, f) == f \in DOMAIN body

\* bodies of a successful /analyze response: timestamp plus the two
\* optional interval fields (where both are there, the legacy one takes
\* the two ends of the range)
CurrentData ==
  { [timestamp |-> t, next_refresh_in_seconds |-> n] :
      t \in 1..MaxTs, n \in Intervals }

AnalysisData ==
       CurrentData
  \cup { [timestamp |-> t] : t \in 1..MaxTs }
  \cup { [timestamp |-> t, cache_expires_in_seconds |-> c] :
           t \in 1..MaxTs, c \in Intervals }
  \cup { [timestamp |-> t, next_refresh_in_seconds |-> n,
          cache_expires_in_seconds |-> c] :
           t \in 1..MaxTs, n \in Intervals, c \in {0 - 1, MaxInterval} }

WarmingBody == [status |-> "warming_up"]
PlainBody == [message |-> "processing"]

\* what axios delivers: a resolved response, or a rejection that may carry
\* the server's response
DataResponse(b) == [ok |-> TRUE, hasResponse |-> TRUE, status |-> 200, data |-> b]

DataResponses == { DataResponse(b) : b \in AnalysisData }

NotReadyResponses ==
  { [ok |-> TRUE,  hasResponse |-> TRUE, status |-> ProcessingCode, data |-> PlainBody],
    [ok |-> TRUE,  hasResponse |-> TRUE, status |-> 200, data |-> WarmingBody],
    [ok |-> FALSE, hasResponse |-> TRUE, status |-> 503, data |-> WarmingBody],
    [ok |-> FALSE, hasResponse |-> TRUE, status |-> ProcessingCode, data |-> PlainBody] }

FailureResponses ==
  { [ok |-> FALSE, hasResponse |-> FALSE, status |-> 0, data |-> PlainBody],
    [ok |-> FALSE, hasResponse |-> TRUE,  status |-> 500, data |-> PlainBody] }

\* a server that names the interval by the current field only
Responses ==
  { DataResponse(b) : b \in CurrentData } \cup NotReadyResponses \cup FailureResponses

\* a server that is never warming up and sends every shape of the body
WireResponses == DataResponses \cup FailureResponses

\* /status responses: the two flags checkStatus reads, or a transport error
StatusResponses ==
  { [ok |-> TRUE, is_refreshing |-> r, has_data |-> h] :
      r \in BOOLEAN, h \in BOOLEAN }
  \cup { [ok |-> FALSE, is_refreshing |-> FALSE, has_data |-> FALSE] }

NoResp == [ok |-> FALSE, none |-> TRUE]

\* ------------------------------------------------------- pure helpers
\* variant: the legacy field is read first
refreshSecondsLegacyFirst(body) ==
  IF Has(body, "cache_expires_in_seconds") THEN body.cache_expires_in_seconds
  ELSE IF Has(body, "next_refresh_in_seconds") THEN body.next_refresh_in_seconds
  ELSE DefaultRefreshSeconds

\* variant: the fifteen-minute default of the earlier page
refreshSecondsOldDefault(body) ==
  IF Has(body, "next_refresh_in_seconds") THEN body.next_refresh_in_seconds
  ELSE IF Has(body, "cache_expires_in_seconds") THEN body.cache_expires_in_seconds
  ELSE 15 * 60

\* variant: the legacy field is not read
refreshSecondsNoLegacy(body) ==
  IF Has(body, "next_refresh_in_seconds") THEN body.next_refresh_in_seconds
  ELSE DefaultRefreshSeconds

\* part_000:101-103   next_refresh_in_seconds ?? cache_expires_in_seconds ?? 600
refreshSeconds(body) ==
  IF Has(body, "next_refresh_in_seconds") THEN body.next_refresh_in_seconds
  ELSE IF Has(body, "cache_expires_in_seconds") THEN body.cache_expires_in_seconds
  ELSE DefaultRefreshSeconds

BodyWarming(body) == Has(body, "status") /\ body.status = "warming_up"

\* part_000:90   response.status === 202 || response.data.status === 'warming_up'
SuccessWarm(r) == r.status = ProcessingCode \/ BodyWarming(r.data)

\* variant: the catch block looks at the status code only
ErrorWarmStatusOnly(r) == r.hasResponse /\ r.status = ProcessingCode

\* part_000:109  err.response?.status === 202 || err.response?.data?.status === 'warming_up'
ErrorWarm(r) == r.hasResponse /\ (r.status = ProcessingCode \/ BodyWarming(r.data))

\* which branch of fetchData a delivered response takes
Outcome(r) ==
  IF r.ok THEN (IF SuccessWarm(r) THEN "warming" ELSE "data")
  ELSE (IF ErrorWarm(r) THEN "warming" ELSE "error")

\* variant: the catch block drops the snapshot on a plain failure
fetchDataResultDropOnError(r) ==
  LET o == Outcome(r) IN
  [ isWarmingUp |-> IF o = "warming" THEN TRUE
                    ELSE IF o = "data" THEN FALSE ELSE isWarmingUp,
    data        |-> IF o = "data" THEN r.data ELSE Null,
    error       |-> IF o = "data" THEN NoError
                    ELSE IF o = "error" THEN FailedMsg ELSE error,
    countdown   |-> IF o = "data" THEN refreshSeconds(r.data) ELSE countdown,
    loading     |-> FALSE ]

\* variant: the catch block zeroes the countdown on a plain failure
fetchDataResultZeroOnError(r) ==
  LET o == Outcome(r) IN
  [ isWarmingUp |-> IF o = "warming" THEN TRUE
                    ELSE IF o = "data" THEN FALSE ELSE isWarmingUp,
    data        |-> IF o = "warming" THEN Null
                    ELSE IF o = "data" THEN r.data ELSE data,
    error       |-> IF o = "data" THEN NoError
                    ELSE IF o = "error" THEN FailedMsg ELSE error,
    countdown   |-> IF o = "data" THEN refreshSeconds(r.data)
                    ELSE IF o = "error" THEN 0 ELSE countdown,
    loading     |-> FALSE ]

\* variant: the catch block leaves the warm-up state on a plain failure
fetchDataResultLeavesWarmup(r) ==
  LET o == Outcome(r) IN
  [ isWarmingUp |-> IF o = "warming" THEN TRUE ELSE FALSE,
    data        |-> IF o = "warming" THEN Null
                    ELSE IF o = "data" THEN r.data ELSE data,
    error       |-> IF o = "data" THEN NoError
                    ELSE IF o = "error" THEN FailedMsg ELSE error,
    countdown   |-> IF o = "data" THEN refreshSeconds(r.data) ELSE countdown,
    loading     |-> FALSE ]

\* variant: a not-ready response zeroes the countdown
fetchDataResultZeroOnWarm(r) ==
  LET o == Outcome(r) IN
  [ isWarmingUp |-> IF o = "warming" THEN TRUE
                    ELSE IF o = "data" THEN FALSE ELSE isWarmingUp,
    data        |-> IF o = "warming" THEN Null
                    ELSE IF o = "data" THEN r.data ELSE data,
    error       |-> IF o = "data" THEN NoError
                    ELSE IF o = "error" THEN FailedMsg ELSE error,
    countdown   |-> IF o = "data" THEN refreshSeconds(r.data)
                    ELSE IF o = "warming" THEN 0 ELSE countdown,
    loading     |-> FALSE ]

\* variant: a response with data leaves the error message as it was
fetchDataResultKeepsError(r) ==
  LET o == Outcome(r) IN
  [ isWarmingUp |-> IF o = "warming" THEN TRUE
                    ELSE IF o = "data" THEN FALSE ELSE isWarmingUp,
    data        |-> IF o = "warming" THEN Null
                    ELSE IF o = "data" THEN r.data ELSE data,
    error       |-> IF o = "error" THEN FailedMsg ELSE error,
    countdown   |-> IF o = "data" THEN refreshSeconds(r.data) ELSE countdown,
    loading     |-> FALSE ]

\* variant: the catch block sets no error message
fetchDataResultSilentFailure(r) ==
  LET o == Outcome(r) IN
  [ isWarmingUp |-> IF o = "warming" THEN TRUE
                    ELSE IF o = "data" THEN FALSE ELSE isWarmingUp,
    data        |-> IF o = "warming" THEN Null
                    ELSE IF o = "data" THEN r.data ELSE data,
    error       |-> IF o = "data" THEN NoError ELSE error,
    countdown   |-> IF o = "data" THEN refreshSeconds(r.data) ELSE countdown,
    loading     |-> FALSE ]

\* variant: a not-ready response keeps the snapshot
fetchDataResultKeepsSnapshot(r) ==
  LET o == Outcome(r) IN
  [ isWarmingUp |-> IF o = "warming" THEN TRUE
                    ELSE IF o = "data" THEN FALSE ELSE isWarmingUp,
    data        |-> IF o = "data" THEN r.data ELSE data,
    error       |-> IF o = "data" THEN NoError
                    ELSE IF o = "error" THEN FailedMsg ELSE error,
    countdown   |-> IF o = "data" THEN refreshSeconds(r.data) ELSE countdown,
    loading     |-> FALSE ]

\* the state fetchData leaves behind once the response r has been handled
\* (try / catch / finally), as a function of the current state
fetchDataResult(r) ==
  LET o == Outcome(r) IN
  [ isWarmingUp |-> IF o = "warming" THEN TRUE
                    ELSE IF o = "data" THEN FALSE ELSE isWarmingUp,
    data        |-> IF o = "warming" THEN Null
                    ELSE IF o = "data" THEN r.data ELSE data,
    error       |-> IF o = "data" THEN NoError
                    ELSE IF o = "error" THEN FailedMsg ELSE error,
    countdown   |-> IF o = "data" THEN refreshSeconds(r.data) ELSE countdown,
    loading     |-> FALSE ]

\* variant: the two waiting messages exchanged
checkStatusMessageSwapped(s) ==
  IF ~s.ok THEN MsgConnecting
  ELSE IF s.is_refreshing THEN MsgWaiting
  ELSE IF s.has_data THEN MsgReady
  ELSE MsgFetching

\* variant: data counts as ready only while the worker is refreshing
checkStatusResultInverted(s) == s.ok /\ s.is_refreshing /\ s.has_data

\* variant: has_data is tested before is_refreshing
checkStatusResultDataFirst(s) == s.ok /\ s.has_data

\* variant: the catch block of checkStatus reports data ready
checkStatusResultTrueOnError(s) == ~s.ok \/ (~s.is_refreshing /\ s.has_data)

\* the message checkStatus sets and the value it returns
checkStatusMessage(s) ==
  IF ~s.ok THEN MsgConnecting
  ELSE IF s.is_refreshing THEN MsgFetching
  ELSE IF s.has_data THEN MsgReady
  ELSE MsgWaiting

checkStatusResult(s) == s.ok /\ ~s.is_refreshing /\ s.has_data

\* ------------------------------------------------------------- the view
\* variant: the error screen is tested before the warm-up screen
ViewErrorFirst ==
  IF error # NoError THEN "error"
  ELSE IF isWarmingUp \/ (loading /\ data = Null) THEN "warmup"
  ELSE "main"

\* variant: the loading flag alone selects the warm-up screen
ViewWhileLoading ==
  IF isWarmingUp \/ loading THEN "warmup"
  ELSE IF error # NoError THEN "error"
  ELSE "main"

\* part_000:189-218  which of the three screens render() returns
View ==
  IF isWarmingUp \/ (loading /\ data = Null) THEN "warmup"
  ELSE IF error # NoError THEN "error"
  ELSE "main"

\* the state of the refresh state machine the flags stand for
RefreshState ==
  IF isWarmingUp THEN "WarmingUp"
  ELSE IF loading /\ data = Null THEN "Initializing"
  ELSE IF error # NoError THEN "Error"
  ELSE "Ready"

Mounted == lifecycle = "mounted"

\* variant: the countdown effect without its guard on the value
CountdownArmedAtZero == Mounted /\ data # Null

\* the effects' guards: an interval exists exactly while its guard holds
CountdownArmed == Mounted /\ data # Null /\ countdown > 0
\* variant: the drift-correction effect without its guard on the snapshot
DriftArmedAlways == Mounted

\* variant: the drift-correction effect without its cleanup
DriftArmedNoCleanup == data # Null

DriftArmed == Mounted /\ data # Null
PollArmed == Mounted /\ isWarmingUp

\* part_000:165-173  the drift-correction effect is keyed on the snapshot:
\* every setData (a new object, or null) runs its cleanup and arms a new
\* interval, so the seconds the interval has been running start again at 0;
\* a plain failure leaves the snapshot and the interval alone
DriftRearmed(r, age) == IF Outcome(r) = "error" THEN age ELSE 0

\* an outstanding request is recorded as a flag: has a request issued after
\* it already been answered
Issue(q) == Append(q, FALSE)

Deliver(q, i) ==
  [j \in 1..(Len(q) - 1) |-> IF j < i THEN TRUE ELSE q[j + 1]]

\* the callback that ran last, the response it handled, the state it ran
\* in, and whether the request it answers had been overtaken
Step(op, resp) ==
  [op |-> op, resp |-> resp, from |-> RefreshState, late |-> FALSE]

\* ----------------------------------------------------------------- Init
Init ==
  /\ data = Null
  /\ loading = TRUE
  /\ error = NoError
  /\ countdown = 0
  /\ isWarmingUp = FALSE
  /\ warmupStatus = MsgInitializing
  /\ inflight = <<>>
  /\ polls = 0
  /\ lifecycle = "new"
  /\ last = [op |-> "construct", resp |-> NoResp, from |-> "Initializing",
             late |-> FALSE]
  /\ driftAge = 0
  /\ sinceDrift = 0
  /\ serverReady = FALSE

\* -------------------------------------------------------------- actions
\* part_000:123-125  the mount effect calls fetchData()
InitialLoad ==
  /\ lifecycle = "new"
  /\ lifecycle' = "mounted"
  /\ loading' = TRUE
  /\ inflight' = Issue(inflight)
  /\ last' = Step("InitialLoad", NoResp)
  /\ UNCHANGED <<data, error, countdown, isWarmingUp, warmupStatus, polls,
                 driftAge, sinceDrift, serverReady>>

\* variant: starting a retry clears the error message
RetryClearsError ==
  /\ Mounted
  /\ View = "error"
  /\ Len(inflight) < MaxInFlight
  /\ loading' = TRUE
  /\ error' = NoError
  /\ inflight' = Issue(inflight)
  /\ last' = Step("Retry", NoResp)
  /\ UNCHANGED <<data, countdown, isWarmingUp, warmupStatus, polls,
                 lifecycle, driftAge, sinceDrift, serverReady>>

\* part_000:212  the RETRY button of the error screen calls fetchData()
Retry ==
  /\ Mounted
  /\ View = "error"
  /\ Len(inflight) < MaxInFlight
  /\ loading' = TRUE
  /\ inflight' = Issue(inflight)
  /\ last' = Step("Retry", NoResp)
  /\ UNCHANGED <<data, error, countdown, isWarmingUp, warmupStatus, polls,
                 lifecycle, driftAge, sinceDrift, serverReady>>

\* variant: the tick raises the refresh one second early
TickEarly ==
  /\ CountdownArmed
  /\ IF countdown <= 2
       THEN /\ Len(inflight) < MaxInFlight
            /\ countdown' = 0
            /\ loading' = TRUE
            /\ inflight' = Issue(inflight)
       ELSE /\ countdown' = countdown - 1
            /\ UNCHANGED <<loading, inflight>>
  /\ last' = Step("Tick", NoResp)
  /\ UNCHANGED <<data, error, isWarmingUp, warmupStatus, polls, lifecycle,
                 driftAge, sinceDrift, serverReady>>

\* part_000:150-159  one firing of the one-second interval
Tick ==
  /\ CountdownArmed
  /\ IF countdown <= 1
       THEN /\ Len(inflight) < MaxInFlight
            /\ countdown' = 0
            /\ loading' = TRUE
            /\ inflight' = Issue(inflight)
       ELSE /\ countdown' = countdown - 1
            /\ UNCHANGED <<loading, inflight>>
  /\ last' = Step("Tick", NoResp)
  /\ UNCHANGED <<data, error, isWarmingUp, warmupStatus, polls, lifecycle,
                 driftAge, sinceDrift, serverReady>>

\* part_000:168-170  one firing of the 60-second interval
DriftFire ==
  /\ DriftArmed
  /\ Len(inflight) < MaxInFlight
  /\ loading' = TRUE
  /\ inflight' = Issue(inflight)
  /\ last' = Step("DriftFire", NoResp)
  /\ driftAge' = 0
  /\ sinceDrift' = 0
  /\ UNCHANGED <<data, error, countdown, isWarmingUp, warmupStatus, polls,
                 lifecycle, serverReady>>

\* part_000:141  one firing of the 3-second interval: pollStatus() starts
\* and its status request goes out
PollTick ==
  /\ PollArmed
  /\ polls < MaxPolls
  /\ polls' = polls + 1
  /\ last' = Step("PollTick", NoResp)
  /\ UNCHANGED <<data, loading, error, countdown, isWarmingUp, warmupStatus,
                 inflight, lifecycle, driftAge, sinceDrift, serverReady>>

\* part_000:64-82 and 131-137  a status request completes inside pollStatus:
\* checkStatus sets the message; when it returns true pollStatus calls
\* fetchData()
StatusReturn(s) ==
  /\ polls > 0
  /\ polls' = polls - 1
  /\ warmupStatus' = IF Mounted THEN checkStatusMessage(s) ELSE warmupStatus
  /\ IF checkStatusResult(s)
       THEN /\ Len(inflight) < MaxInFlight
            /\ inflight' = Issue(inflight)
            /\ loading' = IF Mounted THEN TRUE ELSE loading
       ELSE UNCHANGED <<inflight, loading>>
  /\ last' = Step("StatusReturn", s)
  /\ UNCHANGED <<data, error, countdown, isWarmingUp, lifecycle, driftAge,
                 sinceDrift, serverReady>>

\* variant: a response to a request that has been overtaken is discarded
FetchReturnDropsStale(i, r) ==
  /\ i \in 1..Len(inflight)
  /\ inflight' = Deliver(inflight, i)
  /\ last' = [Step("FetchReturn", r) EXCEPT !.late = inflight[i]]
  /\ IF Mounted /\ ~inflight[i]
       THEN LET n == fetchDataResult(r) IN
            /\ data' = n.data
            /\ error' = n.error
            /\ countdown' = n.countdown
            /\ isWarmingUp' = n.isWarmingUp
            /\ loading' = n.loading
            /\ IF n.isWarmingUp /\ ~isWarmingUp
                 THEN polls < MaxPolls /\ polls' = polls + 1
                 ELSE polls' = polls
            /\ driftAge' = DriftRearmed(r, driftAge)
            /\ sinceDrift' = IF n.data = Null \/ data = Null THEN 0 ELSE sinceDrift
       ELSE UNCHANGED <<data, error, countdown, isWarmingUp, loading, polls,
                        driftAge, sinceDrift>>
  /\ UNCHANGED <<warmupStatus, lifecycle, serverReady>>

\* part_000:87-119 and 128-144  the response r to the i-th outstanding
\* request arrives: fetchData's continuation runs, and when the warm-up flag
\* turns on the polling effect starts and calls pollStatus() at once
FetchReturn(i, r) ==
  /\ i \in 1..Len(inflight)
  /\ inflight' = Deliver(inflight, i)
  /\ last' = [Step("FetchReturn", r) EXCEPT !.late = inflight[i]]
  /\ IF Mounted
       THEN LET n == fetchDataResult(r) IN
            /\ data' = n.data
            /\ error' = n.error
            /\ countdown' = n.countdown
            /\ isWarmingUp' = n.isWarmingUp
            /\ loading' = n.loading
            /\ IF n.isWarmingUp /\ ~isWarmingUp
                 THEN polls < MaxPolls /\ polls' = polls + 1
                 ELSE polls' = polls
            /\ driftAge' = DriftRearmed(r, driftAge)
            /\ sinceDrift' = IF n.data = Null \/ data = Null THEN 0 ELSE sinceDrift
       ELSE UNCHANGED <<data, error, countdown, isWarmingUp, loading, polls,
                        driftAge, sinceDrift>>
  /\ UNCHANGED <<warmupStatus, lifecycle, serverReady>>

\* the cleanups of all effects run; later state updates are dropped
Unmount ==
  /\ Mounted
  /\ lifecycle' = "unmounted"
  /\ last' = Step("Unmount", NoResp)
  /\ UNCHANGED <<data, loading, error, countdown, isWarmingUp, warmupStatus,
                 inflight, polls, driftAge, sinceDrift, serverReady>>

Next ==
  \/ InitialLoad
  \/ Retry
  \/ Tick
  \/ DriftFire
  \/ PollTick
  \/ \E s \in StatusResponses : StatusReturn(s)
  \/ Unmount
  \/ \E i \in 1..MaxInFlight, r \in Responses : FetchReturn(i, r)

Spec == Init /\ [][Next]_vars

\* the page while it stays mounted, against a server that is never warming
\* up and sends the interval under either name, under both, or not at all
NextWire ==
  \/ InitialLoad
  \/ Retry
  \/ Tick
  \/ DriftFire
  \/ \E i \in 1..MaxInFlight, r \in WireResponses : FetchReturn(i, r)

SpecWire == Init /\ [][NextWire]_vars

\* ------------------------------------------ a server that becomes ready
\* serverReady: the server's first refresh has completed; from then on
\* /status reports data ready and /analyze answers with data.
ReadyStatus == [ok |-> TRUE, is_refreshing |-> FALSE, has_data |-> TRUE]

\* the server advertises an interval of one second
LiveData == { b \in CurrentData : b.next_refresh_in_seconds = 1 }

LiveResponses ==
  { DataResponse(b) : b \in LiveData } \cup NotReadyResponses \cup FailureResponses

ServerBecomesReady ==
  /\ ~serverReady
  /\ serverReady' = TRUE
  /\ UNCHANGED <<data, loading, error, countdown, isWarmingUp, warmupStatus,
                 inflight, polls, lifecycle, last, driftAge, sinceDrift>>

\* part_000:64-82  a status response, as the server of the moment sends it
LiveStatusReturn(s) ==
  /\ serverReady => s = ReadyStatus
  /\ StatusReturn(s)

\* part_000:87-119  a response to /analyze, as the server of the moment
\* sends it
LiveFetchReturn(i, r) ==
  /\ serverReady => r \in DataResponses
  /\ FetchReturn(i, r)

\* the page while it stays mounted
NextLive ==
  \/ InitialLoad
  \/ Retry
  \/ Tick
  \/ DriftFire
  \/ PollTick
  \/ ServerBecomesReady
  \/ \E s \in StatusResponses : LiveStatusReturn(s)
  \/ \E i \in 1..MaxInFlight, r \in LiveResponses : LiveFetchReturn(i, r)

\* the 3-second interval keeps firing while it is armed, and every request
\* is answered
Fairness ==
  /\ WF_vars(PollTick)
  /\ WF_vars(\E s \in StatusResponses : LiveStatusReturn(s))
  /\ WF_vars(\E i \in 1..MaxInFlight, r \in LiveResponses : LiveFetchReturn(i, r))

SpecLive == Init /\ [][NextLive]_vars /\ Fairness

\* ------------------------------------------------- the page on a clock
\* Time advances in whole seconds.  driftAge is the number of seconds the
\* 60-second interval has been running since it was armed or last fired;
\* sinceDrift is the number of seconds since the last drift-correction fetch
\* (or since the first snapshot arrived), counted up to DriftPeriod + 1.
\* The server answers every request within the second it was issued in.
Elapse ==
  /\ inflight = <<>>
  /\ driftAge < DriftPeriod
  /\ driftAge' = driftAge + 1
  /\ sinceDrift' = IF sinceDrift > DriftPeriod THEN sinceDrift ELSE sinceDrift + 1

\* part_000:150-159  a second passes with the one-second interval armed: its
\* callback runs
SecondTick ==
  /\ CountdownArmed
  /\ Elapse
  /\ IF countdown <= 1
       THEN /\ Len(inflight) < MaxInFlight
            /\ countdown' = 0
            /\ loading' = TRUE
            /\ inflight' = Issue(inflight)
       ELSE /\ countdown' = countdown - 1
            /\ UNCHANGED <<loading, inflight>>
  /\ last' = Step("SecondTick", NoResp)
  /\ UNCHANGED <<data, error, isWarmingUp, warmupStatus, polls, lifecycle,
                 serverReady>>

\* part_000:148  a second passes with a snapshot held and the countdown at
\* or below zero: the one-second interval does not exist
SecondIdle ==
  /\ DriftArmed
  /\ ~CountdownArmed
  /\ Elapse
  /\ last' = Step("SecondIdle", NoResp)
  /\ UNCHANGED <<data, loading, error, countdown, isWarmingUp, warmupStatus,
                 inflight, polls, lifecycle, serverReady>>

\* part_000:168-170  the 60-second interval fires once its period has run
DriftDue ==
  /\ driftAge = DriftPeriod
  /\ DriftFire

\* the page while it stays mounted, against a server that always has data
NextTimed ==
  \/ InitialLoad
  \/ SecondTick
  \/ SecondIdle
  \/ DriftDue
  \/ \E i \in 1..MaxInFlight, b \in CurrentData : FetchReturn(i, DataResponse(b))

SpecTimed == Init /\ [][NextTimed]_vars

\* ------------------------------------------------- the ranked list
\* An entry of top_opportunities as the server sends it: with the current
\* field names (part_000:8-26) or with the names of the earlier interface
\* (src/app/page.tsx:8-26).
GameNames == {"Chess", "Dota 2"}
ViewerCounts == {0, 950, 1500}

CurrentOpportunities ==
  { [rank |-> 1, game_name |-> g, total_viewers |-> v] :
      g \in GameNames, v \in ViewerCounts }

LegacyOpportunities ==
  { [rank |-> 1, name |-> g, viewers |-> v] :
      g \in GameNames, v \in ViewerCounts }

OpportunityLists ==
  UNION { [1..k -> CurrentOpportunities \cup LegacyOpportunities] : k \in 0..MaxGames }

ListData ==
  { [timestamp |-> t, next_refresh_in_seconds |-> n, top_opportunities |-> l] :
      t \in 1..MaxTs, n \in 1..MaxInterval, l \in OpportunityLists }

ListResponses == { DataResponse(b) : b \in ListData } \cup FailureResponses

DigitChar == <<"0", "1", "2", "3", "4", "5", "6", "7", "8", "9">>

RECURSIVE Decimal(_)
Decimal(n) ==
  IF n < 10 THEN DigitChar[n + 1]
  ELSE Decimal(n \div 10) \o DigitChar[(n % 10) + 1]

\* Number.prototype.toLocaleString() of a non-negative integer: decimal
\* digits in groups of three, separated by commas
RECURSIVE toLocaleString(_)
toLocaleString(n) ==
  IF n < 1000 THEN Decimal(n)
  ELSE toLocaleString(n \div 1000) \o ","
         \o DigitChar[((n % 1000) \div 100) + 1]
         \o DigitChar[((n % 100) \div 10) + 1]
         \o DigitChar[(n % 10) + 1]

\* part_000:301-304  the title and the viewer count of one card:
\* {game.game_name} and {game.total_viewers?.toLocaleString() || 0}
Card(game) ==
  [ title   |-> IF Has(game, "game_name") THEN game.game_name ELSE "",
    viewers |-> IF Has(game, "total_viewers")
                  THEN toLocaleString(game.total_viewers) ELSE "0" ]

\* part_000:267  data?.top_opportunities?.map(...) on the main screen
Cards ==
  IF View = "main" /\ data # Null /\ Has(data, "top_opportunities")
    THEN [i \in DOMAIN data.top_opportunities |-> Card(data.top_opportunities[i])]
    ELSE <<>>

\* the page while it stays mounted, against a server that sends the list
\* under either naming
NextList ==
  \/ InitialLoad
  \/ Retry
  \/ Tick
  \/ DriftFire
  \/ \E i \in 1..MaxInFlight, r \in ListResponses : FetchReturn(i, r)

SpecList == Init /\ [][NextList]_vars

\* ------------------------------------------- the earlier page variant
\* (src/app/page.tsx:36-124)  The same state without the warm-up flag; the
\* countdown effect is keyed on data?.timestamp, sets the countdown from
\* cache_expires_in_seconds when it runs and keeps its one-second interval
\* for as long as the timestamp stays the same; fetchData is also called
\* every 15 minutes.
EarlyData ==
  { [timestamp |-> t, cache_expires_in_seconds |-> c] :
      t \in 1..MaxTs, c \in Intervals }

EarlyResponses == { DataResponse(b) : b \in EarlyData } \cup FailureResponses

\* page.tsx:69  the effect's dependency data?.timestamp (0: undefined)
EarlyKey(d) == IF d = Null THEN 0 ELSE d.timestamp

\* page.tsx:52  if (!data) return
EarlyCountdownArmed == Mounted /\ data # Null

\* page.tsx:98-124
EarlyView ==
  IF loading /\ data = Null THEN "loading"
  ELSE IF error # NoError THEN "error"
  ELSE "main"

\* page.tsx:43-48  the mount effect calls fetchData() and arms the
\* 15-minute interval
EarlyMount ==
  /\ lifecycle = "new"
  /\ lifecycle' = "mounted"
  /\ loading' = TRUE
  /\ inflight' = Issue(inflight)
  /\ last' = Step("EarlyMount", NoResp)
  /\ UNCHANGED <<data, error, countdown, isWarmingUp, warmupStatus, polls,
                 driftAge, sinceDrift, serverReady>>

\* page.tsx:46  one firing of the 15-minute interval
EarlyRefresh ==
  /\ Mounted
  /\ Len(inflight) < MaxInFlight
  /\ loading' = TRUE
  /\ inflight' = Issue(inflight)
  /\ last' = Step("EarlyRefresh", NoResp)
  /\ UNCHANGED <<data, error, countdown, isWarmingUp, warmupStatus, polls,
                 lifecycle, driftAge, sinceDrift, serverReady>>

\* page.tsx:115-120  the RETRY button
EarlyRetry ==
  /\ Mounted
  /\ EarlyView = "error"
  /\ Len(inflight) < MaxInFlight
  /\ loading' = TRUE
  /\ inflight' = Issue(inflight)
  /\ last' = Step("EarlyRetry", NoResp)
  /\ UNCHANGED <<data, error, countdown, isWarmingUp, warmupStatus, polls,
                 lifecycle, driftAge, sinceDrift, serverReady>>

\* page.tsx:58-66  one firing of the one-second interval
EarlyTick ==
  /\ EarlyCountdownArmed
  /\ IF countdown <= 1
       THEN /\ Len(inflight) < MaxInFlight
            /\ countdown' = 0
            /\ loading' = TRUE
            /\ inflight' = Issue(inflight)
       ELSE /\ countdown' = countdown - 1
            /\ UNCHANGED <<loading, inflight>>
  /\ last' = Step("EarlyTick", NoResp)
  /\ UNCHANGED <<data, error, isWarmingUp, warmupStatus, polls, lifecycle,
                 driftAge, sinceDrift, serverReady>>

\* page.tsx:71-83 and 51-69  the response r to the i-th outstanding request
\* arrives: fetchData's continuation runs, and the countdown effect runs
\* again when the timestamp of the snapshot has changed
EarlyFetchReturn(i, r) ==
  /\ Mounted
  /\ i \in 1..Len(inflight)
  /\ inflight' = Deliver(inflight, i)
  /\ last' = [Step("EarlyFetchReturn", r) EXCEPT !.late = inflight[i]]
  /\ data' = IF r.ok THEN r.data ELSE data
  /\ error' = IF r.ok THEN NoError ELSE FailedMsg
  /\ loading' = FALSE
  /\ countdown' = IF r.ok /\ EarlyKey(r.data) # EarlyKey(data)
                    THEN r.data.cache_expires_in_seconds
                    ELSE countdown
  /\ UNCHANGED <<isWarmingUp, warmupStatus, polls, lifecycle, driftAge,
                 sinceDrift, serverReady>>

NextEarly ==
  \/ EarlyMount
  \/ EarlyRefresh
  \/ EarlyRetry
  \/ EarlyTick
  \/ \E i \in 1..MaxInFlight, r \in EarlyResponses : EarlyFetchReturn(i, r)

SpecEarly == Init /\ [][NextEarly]_vars

TypeOK ==
  /\ data \in {Null} \cup AnalysisData \cup ListData
  /\ loading \in BOOLEAN
  /\ error \in {NoError, FailedMsg}
  /\ countdown \in Int
  /\ isWarmingUp \in BOOLEAN
  /\ Len(inflight) <= MaxInFlight
  /\ polls \in 0..MaxPolls
  /\ lifecycle \in {"new", "mounted", "unmounted"}
  /\ driftAge \in 0..DriftPeriod
  /\ sinceDrift \in 0..(DriftPeriod + 1)
  /\ serverReady \in BOOLEAN

\* ================================================================ claims
TimerOps == {"Tick", "DriftFire", "PollTick"}

ThrownWarming ==
  [ok |-> FALSE, hasResponse |-> TRUE, status |-> 503, data |-> WarmingBody]

\* the step just taken delivered a response of the set R to the mounted page
Delivers(R) == Mounted /\ last'.op = "FetchReturn" /\ last'.resp \in R

\* C1: at most one /analyze request is outstanding at any instant, whatever
\* the interleaving of countdown, drift-correction, warm-up poll and retry.
C1_AtMostOneInFlight == Len(inflight) <= 1

\* C2 (as stated): while a snapshot is held, neither a not-ready response nor
\* a failed response changes or clears it.
C2_OnlySuccessReplaces ==
  [][(data # Null /\ Delivers(NotReadyResponses \cup FailureResponses))
       => data' = data]_vars

\* C2 (amended): a failed response leaves the snapshot unchanged, a not-ready
\* response clears it to null, and a non-null snapshot is installed only by
\* a response that carries data, as that response's body.
C2_SnapshotChanges ==
  [][/\ Delivers(FailureResponses) => data' = data
     /\ Delivers(NotReadyResponses) => data' = Null
     /\ (data' # data /\ data' # Null)
          => (Delivers(DataResponses) /\ data' = last'.resp.data)]_vars

C2_Witness ==
  /\ last.op = "FetchReturn"
  /\ last.resp \in FailureResponses
  /\ last.from = "Ready"
  /\ data # Null

\* C3: every encoding of not-ready (202, warming_up in a success body,
\* warming_up in the payload of a thrown error) leaves the same state behind:
\* warm-up flag set, snapshot null, loading false, and error message,
\* countdown and warm-up message as they were.
C3_NotReadySameEvent ==
  [][Delivers(NotReadyResponses)
       => /\ isWarmingUp' = TRUE
          /\ data' = Null
          /\ loading' = FALSE
          /\ error' = error
          /\ countdown' = countdown
          /\ warmupStatus' = warmupStatus]_vars

C3_Witness ==
  /\ last.op = "FetchReturn"
  /\ last.resp = ThrownWarming
  /\ lifecycle = "mounted"
  /\ isWarmingUp
  /\ data = Null
  /\ ~loading

\* C4: a not-ready response is never surfaced as an error: whatever the state
\* it arrives in, the machine is then WarmingUp, the warm-up screen is the
\* one rendered, and the response has not set the error message.
C4_NotReadyIsNotError ==
  [][Delivers(NotReadyResponses)
       => /\ RefreshState' = "WarmingUp"
          /\ View' = "warmup"
          /\ error' = error]_vars

C4_Witness ==
  /\ last.op = "FetchReturn"
  /\ last.resp = ThrownWarming
  /\ last.from = "Ready"
  /\ lifecycle = "mounted"
  /\ View = "warmup"
  /\ error = NoError

\* C5: a plain transport failure arriving in Ready gives Error, keeps the
\* snapshot and leaves the countdown as it was.
C5_ReadyFailure ==
  [][(RefreshState = "Ready" /\ Delivers(FailureResponses))
       => /\ RefreshState' = "Error"
          /\ data' = data
          /\ countdown' = countdown]_vars

C5_Witness ==
  /\ last.op = "FetchReturn"
  /\ last.resp \in FailureResponses
  /\ last.from = "Ready"
  /\ lifecycle = "mounted"
  /\ RefreshState = "Error"
  /\ data # Null
  /\ countdown > 0

\* C6: Error is terminal until retry: from an Error state every step other
\* than the retry action leaves the state Error and issues neither a fetch
\* nor a status poll.
C6_ErrorTerminal ==
  [][(Mounted /\ RefreshState = "Error" /\ last'.op # "Retry")
       => /\ RefreshState' = "Error"
          /\ Len(inflight') <= Len(inflight)
          /\ polls' <= polls]_vars

\* C7: right after the retry action the machine is Initializing: the loading
\* screen is rendered and the error screen is not.
C7_RetryInitializes ==
  [][last'.op = "Retry"
       => (RefreshState' = "Initializing" /\ View' = "warmup")]_vars

\* C8: when the first fetch (or a retry of it) fails from Initializing the
\* state is Error without a snapshot, and the next step can only be the retry
\* action or the teardown: no timer fires and no request is issued.
C8_FirstFetchFails ==
  [][(Mounted /\ last.op = "FetchReturn" /\ last.from = "Initializing"
        /\ last.resp \in FailureResponses)
       => /\ RefreshState = "Error"
          /\ data = Null
          /\ last'.op \in {"Retry", "Unmount"}
          /\ (last'.op # "Retry" => (inflight' = inflight /\ polls' = polls))]_vars

C8_Witness ==
  /\ last.op = "FetchReturn"
  /\ last.from = "Initializing"
  /\ last.resp \in FailureResponses
  /\ lifecycle = "mounted"
  /\ RefreshState = "Error"
  /\ data = Null
  /\ inflight = <<>>
  /\ polls = 0

\* C9: a data response that carries next_refresh_in_seconds sets the
\* countdown to that value, whether or not cache_expires_in_seconds is there.
C9_NewerFieldWins ==
  [][(Delivers(DataResponses) /\ Has(last'.resp.data, "next_refresh_in_seconds"))
       => countdown' = last'.resp.data.next_refresh_in_seconds]_vars

C9_Witness ==
  /\ last.op = "FetchReturn"
  /\ last.resp \in DataResponses
  /\ lifecycle = "mounted"
  /\ Has(last.resp.data, "next_refresh_in_seconds")
  /\ Has(last.resp.data, "cache_expires_in_seconds")
  /\ last.resp.data.next_refresh_in_seconds = 0
  /\ last.resp.data.cache_expires_in_seconds = 2
  /\ countdown = 0

\* C10: a data response that carries neither interval field sets the
\* countdown to 600.
C10_DefaultInterval ==
  [][(/\ Delivers(DataResponses)
      /\ ~Has(last'.resp.data, "next_refresh_in_seconds")
      /\ ~Has(last'.resp.data, "cache_expires_in_seconds"))
       => countdown' = 600]_vars

C10_Witness ==
  /\ last.op = "FetchReturn"
  /\ last.resp \in DataResponses
  /\ lifecycle = "mounted"
  /\ ~Has(last.resp.data, "next_refresh_in_seconds")
  /\ ~Has(last.resp.data, "cache_expires_in_seconds")
  /\ countdown = 600

\* a status response reaches the mounted page while it is warming up
StatusArrives == Mounted /\ isWarmingUp /\ last'.op = "StatusReturn"

\* C11: the countdown is never negative, whatever interval the server
\* advertises (zero and negative values included).
C11_CountdownNonNegative == countdown >= 0

\* C12: the tick that takes the countdown to zero issues exactly one fetch,
\* a tick above 1 issues none, no tick happens at zero, and the countdown
\* leaves zero only when a response with data resets it.
C12_ZeroRaisedOnce ==
  [][/\ last'.op = "Tick"
          => /\ countdown > 0
             /\ countdown = 1 => (countdown' = 0
                                   /\ Len(inflight') = Len(inflight) + 1)
             /\ countdown > 1 => (countdown' = countdown - 1
                                   /\ inflight' = inflight)
     /\ (countdown = 0 /\ countdown' # 0) => Delivers(DataResponses)]_vars

C12_Witness ==
  /\ last.op = "Tick"
  /\ lifecycle = "mounted"
  /\ data # Null
  /\ countdown = 0
  /\ Len(inflight) = 1

\* C13 (as stated): while warming up, a status response with has_data = true
\* issues one fetch whatever is_refreshing says, and data delivered while
\* warming up gives Ready with the countdown at the advertised interval.
C13_HasDataFetches ==
  [][/\ (StatusArrives /\ last'.resp.ok /\ last'.resp.has_data)
          => Len(inflight') = Len(inflight) + 1
     /\ (isWarmingUp /\ Delivers(DataResponses))
          => (RefreshState' = "Ready"
               /\ countdown' = last'.resp.data.next_refresh_in_seconds)]_vars

\* C13 (amended): a status response issues one fetch exactly when it reports
\* has_data = true and is_refreshing = false; with is_refreshing = true no
\* fetch is issued.  Data delivered while warming up gives Ready with the
\* countdown at the advertised interval.
C13_ReadyDataFetches ==
  [][/\ (StatusArrives /\ last'.resp.ok /\ last'.resp.has_data
           /\ ~last'.resp.is_refreshing)
          => Len(inflight') = Len(inflight) + 1
     /\ (StatusArrives /\ last'.resp.ok /\ last'.resp.is_refreshing)
          => inflight' = inflight
     /\ (isWarmingUp /\ Delivers(DataResponses))
          => (RefreshState' = "Ready"
               /\ countdown' = last'.resp.data.next_refresh_in_seconds)]_vars

C13_Witness ==
  /\ last.op = "FetchReturn"
  /\ last.resp \in DataResponses
  /\ last.from = "WarmingUp"
  /\ lifecycle = "mounted"
  /\ warmupStatus = MsgReady
  /\ RefreshState = "Ready"
  /\ countdown = MaxInterval

\* C14: while warming up, a status response with has_data = false issues no
\* fetch, keeps the state WarmingUp and sets the message by is_refreshing.
C14_NoDataMessages ==
  [][(StatusArrives /\ last'.resp.ok /\ ~last'.resp.has_data)
       => /\ RefreshState' = "WarmingUp"
          /\ inflight' = inflight
          /\ warmupStatus' = IF last'.resp.is_refreshing
                               THEN "Fetching stream data from Twitch API..."
                               ELSE "Waiting for initial data fetch..."]_vars

C14_Witness ==
  /\ last.op = "StatusReturn"
  /\ last.resp.ok
  /\ ~last.resp.has_data
  /\ last.resp.is_refreshing
  /\ lifecycle = "mounted"
  /\ isWarmingUp
  /\ warmupStatus = "Fetching stream data from Twitch API..."

\* C15: a failed status request is not escalated: the state stays WarmingUp,
\* the error message is untouched, no fetch is issued, the message is
\* "Connecting to server..." and the polling interval stays armed.
C15_PollFailureSilent ==
  [][(StatusArrives /\ ~last'.resp.ok)
       => /\ RefreshState' = "WarmingUp"
          /\ error' = error
          /\ inflight' = inflight
          /\ warmupStatus' = "Connecting to server..."
          /\ PollArmed']_vars

C15_Witness ==
  /\ last.op = "StatusReturn"
  /\ ~last.resp.ok
  /\ last.from = "WarmingUp"
  /\ lifecycle = "mounted"
  /\ isWarmingUp
  /\ error = NoError
  /\ warmupStatus = "Connecting to server..."

\* C16: outside WarmingUp no status request is issued and no status response
\* of an earlier poll issues a fetch.
C16_NoOrphanedPollers ==
  [][(Mounted /\ ~isWarmingUp)
       => /\ (polls' > polls => isWarmingUp')
          /\ (last'.op = "StatusReturn" => inflight' = inflight)]_vars

\* C17: a plain failure of a fetch delivered while warming up leaves the
\* state WarmingUp with the warm-up screen and the polling interval armed,
\* and afterwards a status response reporting data ready issues a new fetch.
C17_WarmupFetchFailure ==
  [][/\ (isWarmingUp /\ Delivers(FailureResponses))
          => /\ RefreshState' = "WarmingUp"
             /\ View' = "warmup"
             /\ PollArmed'
     /\ (StatusArrives /\ error # NoError /\ last'.resp.ok
           /\ last'.resp.has_data /\ ~last'.resp.is_refreshing)
          => Len(inflight') = Len(inflight) + 1]_vars

C17_Witness ==
  /\ last.op = "StatusReturn"
  /\ last.resp.ok /\ last.resp.has_data /\ ~last.resp.is_refreshing
  /\ lifecycle = "mounted"
  /\ isWarmingUp
  /\ error = FailedMsg
  /\ Len(inflight) = 1

\* C18: issuing a re-fetch from the main screen keeps the main screen; the
\* main screen gives way to the warm-up screen only when a not-ready
\* response is delivered; data delivered in Ready becomes the snapshot,
\* resets the countdown to its interval and leaves the state Ready.
C18_RefetchKeepsMainView ==
  [][/\ (Mounted /\ View = "main" /\ Len(inflight') > Len(inflight))
          => (View' = "main" /\ RefreshState' = "Ready")
     /\ (Mounted /\ View = "main" /\ View' = "warmup")
          => Delivers(NotReadyResponses)
     /\ (RefreshState = "Ready" /\ Delivers(DataResponses))
          => /\ data' = last'.resp.data
             /\ countdown' = last'.resp.data.next_refresh_in_seconds
             /\ RefreshState' = "Ready"]_vars

C18_Witness ==
  /\ last.op = "DriftFire"
  /\ last.from = "Ready"
  /\ lifecycle = "mounted"
  /\ loading
  /\ data # Null
  /\ Len(inflight) = 1
  /\ View = "main"

\* C19: after teardown no interval fires: neither the countdown tick, nor
\* the warm-up poll, nor the drift-correction refresh.
C19_NoTimerAfterTeardown ==
  [][lifecycle = "unmounted" => last'.op \notin TimerOps]_vars

C19_Witness ==
  /\ lifecycle = "unmounted"
  /\ last.op = "FetchReturn"
  /\ data # Null
  /\ countdown > 0

\* C20: the response that arrives last wins, also when it answers a request
\* that a later-issued request has overtaken: data becomes the snapshot and
\* clears flag and message, not-ready clears the snapshot and sets the flag,
\* a failure sets the message.
C20_LastArrivalWins ==
  [][(Mounted /\ last'.op = "FetchReturn" /\ last'.late)
       => /\ last'.resp \in DataResponses
               => (data' = last'.resp.data /\ ~isWarmingUp' /\ error' = NoError)
          /\ last'.resp \in NotReadyResponses
               => (data' = Null /\ isWarmingUp' /\ error' = error)
          /\ last'.resp \in FailureResponses
               => (data' = data /\ isWarmingUp' = isWarmingUp
                    /\ error' = FailedMsg)]_vars

C20_Witness ==
  /\ last.op = "FetchReturn"
  /\ last.late
  /\ last.resp \in DataResponses
  /\ lifecycle = "mounted"
  /\ data = last.resp.data
  /\ inflight = <<>>

\* C21 (as stated): the indicators of the states exclude one another: the
\* warm-up flag is never set together with a non-null error message.
C21_FlagsExclusive == ~(isWarmingUp /\ error # NoError)

\* C21 (amended): the warm-up flag can be set together with an error
\* message; the flag takes precedence, so the state is WarmingUp and the
\* warm-up screen is the one rendered, and the step that clears the flag
\* clears the message and installs a snapshot.
C21_FlagTakesPrecedence ==
  [][/\ isWarmingUp'
          => (RefreshState' = "WarmingUp" /\ View' = "warmup")
     /\ (isWarmingUp /\ ~isWarmingUp')
          => (Delivers(DataResponses) /\ error' = NoError /\ data' # Null)]_vars

C21_Witness ==
  /\ last.op = "FetchReturn"
  /\ last.resp \in NotReadyResponses
  /\ last.from = "Error"
  /\ lifecycle = "mounted"
  /\ isWarmingUp
  /\ error = FailedMsg
  /\ View = "warmup"

\* the same entry under the current field names
AsCurrent(game) ==
  [rank |-> game.rank, game_name |-> game.name, total_viewers |-> game.viewers]

\* C22: an entry delivered with the legacy names name and viewers is shown
\* with the same title and viewer count as the same entry delivered with
\* game_name and total_viewers.
C22_LegacyAccepted ==
  (Mounted /\ View = "main" /\ data # Null)
    => \A i \in DOMAIN data.top_opportunities :
         Has(data.top_opportunities[i], "name")
           => Cards[i] = Card(AsCurrent(data.top_opportunities[i]))

\* C23: while the page stays Ready, never more than 60 seconds pass without
\* a drift-correction fetch, whatever the countdown does in between.
C23_DriftEverySixty ==
  (Mounted /\ RefreshState = "Ready") => sinceDrift <= DriftPeriod

\* C24: a reset discards the pending zero event: the tick right after a
\* data response has set the countdown to N > 1 gives N - 1 and issues no
\* fetch, every tick lowers the countdown by exactly one, and the clock
\* issues a fetch only on the tick from 1, that is N ticks after the reset.
C24_ResetDiscardsZero ==
  [][last'.op = "Tick"
       => /\ countdown' = countdown - 1
          /\ Len(inflight') > Len(inflight) => countdown = 1
          /\ (last.op = "FetchReturn" /\ last.resp \in DataResponses
                /\ countdown > 1)
               => inflight' = inflight]_vars

C24_Witness ==
  /\ last.op = "Tick"
  /\ lifecycle = "mounted"
  /\ data # Null
  /\ countdown = 1
  /\ inflight = <<TRUE>>

\* C25: the countdown changes only by a tick (to one less, or to 0) or by a
\* response with data; a not-ready response, a failed fetch, the start of a
\* status poll and a status response leave it as it was.
C25_CountdownFrame ==
  [][/\ countdown' # countdown
          => \/ (last'.op = "Tick" /\ countdown' \in {countdown - 1, 0})
             \/ Delivers(DataResponses)
     /\ (\/ Delivers(NotReadyResponses \cup FailureResponses)
         \/ last'.op \in {"StatusReturn", "PollTick"})
          => countdown' = countdown]_vars

C25_Witness ==
  /\ last.op = "FetchReturn"
  /\ last.resp \in NotReadyResponses
  /\ last.resp.status = ProcessingCode
  /\ last.from = "Ready"
  /\ lifecycle = "mounted"
  /\ countdown = MaxInterval

\* C26: a data response that carries cache_expires_in_seconds and no
\* next_refresh_in_seconds sets the countdown to cache_expires_in_seconds.
C26_LegacyFieldUsed ==
  [][(/\ Delivers(DataResponses)
      /\ ~Has(last'.resp.data, "next_refresh_in_seconds")
      /\ Has(last'.resp.data, "cache_expires_in_seconds"))
       => countdown' = last'.resp.data.cache_expires_in_seconds]_vars

C26_Witness ==
  /\ last.op = "FetchReturn"
  /\ last.resp \in DataResponses
  /\ lifecycle = "mounted"
  /\ ~Has(last.resp.data, "next_refresh_in_seconds")
  /\ Has(last.resp.data, "cache_expires_in_seconds")
  /\ last.resp.data.cache_expires_in_seconds = MaxInterval
  /\ countdown = MaxInterval

\* C27: in the earlier variant, once the countdown is at zero no tick issues
\* a further fetch: the refresh is raised by the tick that reaches zero and
\* by no tick after it.
C27_EarlyZeroRaisedOnce ==
  [][(last.op = "EarlyTick" /\ countdown = 0 /\ last'.op = "EarlyTick")
       => inflight' = inflight]_vars

\* C28: in the earlier variant, every response with data sets the countdown
\* to its cache_expires_in_seconds, also when its timestamp is the one of
\* the snapshot already held.
C28_EarlyResyncEveryFetch ==
  [][(last'.op = "EarlyFetchReturn" /\ last'.resp.ok)
       => countdown' = last'.resp.data.cache_expires_in_seconds]_vars

\* C29: in every state the snapshot is non-null, or the warm-up flag, the
\* error message or the loading flag is set; the main screen is rendered
\* only with a snapshot.
C29_MainViewHasSnapshot ==
  /\ (data # Null \/ isWarmingUp \/ error # NoError \/ loading)
  /\ (View = "main" => data # Null)

C29_Witness ==
  /\ last.op = "FetchReturn"
  /\ last.from = "WarmingUp"
  /\ lifecycle = "mounted"
  /\ View = "main"
  /\ data # Null
  /\ ~loading
  /\ ~isWarmingUp
  /\ error = NoError

\* C30: while the warm-up flag is set the snapshot is null and neither the
\* one-second interval nor the 60-second interval is armed; a fetch issued
\* while the flag is set comes from a status response that reported data
\* ready.
C30_WarmupHasNoSnapshot ==
  [][/\ isWarmingUp'
          => (data' = Null /\ ~CountdownArmed' /\ ~DriftArmed')
     /\ (isWarmingUp /\ Len(inflight') > Len(inflight))
          => /\ last'.op = "StatusReturn"
             /\ last'.resp.ok
             /\ last'.resp.has_data
             /\ ~last'.resp.is_refreshing]_vars

C30_Witness ==
  /\ last.op = "StatusReturn"
  /\ last.resp.ok /\ last.resp.has_data /\ ~last.resp.is_refreshing
  /\ lifecycle = "mounted"
  /\ isWarmingUp
  /\ data = Null
  /\ countdown > 0
  /\ Len(inflight) = 1

\* C32: a set error message is cleared only by the delivery of a response
\* with data (not by a not-ready response, a status poll, a tick or the
\* start of a retry), and right after every delivery of a response with
\* data the error message is null and the warm-up flag is false.
C32_OnlyDataClearsError ==
  [][/\ (error # NoError /\ error' = NoError) => Delivers(DataResponses)
     /\ (error # NoError
           /\ (\/ Delivers(NotReadyResponses)
               \/ last'.op \in {"StatusReturn", "PollTick", "Tick", "DriftFire",
                                 "Retry"}))
          => error' = error
     /\ Delivers(DataResponses) => (error' = NoError /\ ~isWarmingUp')]_vars

C32_Witness ==
  /\ last.op = "Retry"
  /\ last.from = "Error"
  /\ lifecycle = "mounted"
  /\ loading
  /\ error = FailedMsg

\* C31: once the page is warming up and the server has become ready (every
\* status response reports data ready, every fetch returns data), the page
\* eventually is Ready with a snapshot and without an error message.
C31_WarmupRecovers ==
  (isWarmingUp /\ serverReady)
    ~> (RefreshState = "Ready" /\ data # Null /\ error = NoError)

C31_Witness ==
  /\ serverReady
  /\ last.op = "FetchReturn"
  /\ last.from = "WarmingUp"
  /\ lifecycle = "mounted"
  /\ warmupStatus = MsgReady
  /\ RefreshState = "Ready"
  /\ data # Null
  /\ error = NoError
====
